---- MODULE Spec2Model ----
(***************************************************************************)
(* Verification model of the traffic simulation: the speed model of        *)
(* simulation.py, the per-tick update and the traffic lights of cars.py,   *)
(* and the sensing, state classification, re-route search and light        *)
(* pedigree of navigation.py.                                              *)
(*                                                                         *)
(* Each component is its own specification over the shared variables; the  *)
(* variables of the other components stay at their idle values.            *)
(***************************************************************************)
EXTENDS Integers, Sequences, FiniteSets, TLC

VARIABLES
    \* ---- speed model (simulation.py) ----
    sp_pc,          \* "input" before update_speed_factor ran, "done" after
    sp_theta,       \* angles[0], as K = 2*theta/pi in units of 1e-6
    sp_d,           \* distances[0], in units of 1e-6
    sp_curv,        \* road_curvature_factor(theta, d)
    sp_obst,        \* car_obstacle_factor(d)
    \* ---- re-route search (navigation.py build_new_route) ----
    rt_pc,          \* "idle", "search" (in the while loop), "done", "error"
    rt_adj,         \* G: node -> list of the nodes G[node] iterates
    rt_pos,         \* node -> <<x, y>>
    rt_route,       \* the original route
    rt_reroute_index,
    rt_reroute_node,
    rt_direction,
    rt_new_route,
    rt_i,           \* the loop counter i
    rt_detour,      \* history: the nodes the search has visited off the route
    rt_seen,        \* history: the <<reroute_node, direction>> pairs at the loop head
    \* ---- state classification (navigation.py StateView) ----
    st_pc,          \* "idle", "view" (StateView built), "classified"
    st_route,       \* self.route
    st_destination, \* self.car['destination']
    st_lights,      \* the lights frame: list of [node, switch]
    st_cars,        \* the cars frame: list of the cars' (xbin, ybin)
    st_state,       \* what determine_state returned
    st_reroute_node,\* the reroute_node determine_state computed, 0 if none
    st_light_node,  \* the light_node determine_state re-routes around, 0 if none
    \* ---- obstacle sensing (navigation.py car_obstacles, light_obstacles) ----
    ob_pc,          \* "idle", "lights", "cars", "sensed"
    ob_car,         \* frontview.car
    ob_others,      \* the other cars, in frame order
    ob_lights,      \* the lights, in frame order
    ob_dcar,        \* what car_obstacles returned
    ob_dlight,      \* what light_obstacles returned
    \* ---- the tick (cars.py Cars.update) ----
    tk_pc,          \* "idle", "run"
    tk_cars,        \* self.state: the rows of the cars frame
    tk_prev,        \* history: self.state when the last tick started
    tk_lights,      \* lights_state
    tk_time,        \* self.time_elapsed, in ticks
    tk_fired,       \* history: per car and waypoint, ticks with a crossing event
    \* ---- a traffic light (navigation.py determine_pedigree, cars.py TrafficLights) ----
    lt_pc,          \* "idle", "graph" (G loaded), "lit" (light built), "raised"
    lt_edges,       \* G.edges() around the light's node, in iteration order
    lt_light,       \* the light: node, degree, pedigree (xv, yv, go per face)
    lt_time,        \* TrafficLights.time_elapsed, in ticks
    lt_dlight       \* what light_obstacles returned to a car driving at the light

speedVars == <<sp_pc, sp_theta, sp_d, sp_curv, sp_obst>>
routeVars == <<rt_pc, rt_adj, rt_pos, rt_route, rt_reroute_index, rt_reroute_node,
               rt_direction, rt_new_route, rt_i, rt_detour, rt_seen>>
stateVars == <<st_pc, st_route, st_destination, st_lights, st_cars, st_state,
               st_reroute_node, st_light_node>>
obstVars == <<ob_pc, ob_car, ob_others, ob_lights, ob_dcar, ob_dlight>>
tickVars == <<tk_pc, tk_cars, tk_prev, tk_lights, tk_time, tk_fired>>
lightVars == <<lt_pc, lt_edges, lt_light, lt_time, lt_dlight>>
vars == <<speedVars, routeVars, stateVars, obstVars, tickVars, lightVars>>
\* What an action of one component leaves alone: the other components.
notSpeed == <<routeVars, stateVars, obstVars, tickVars, lightVars>>
notRoute == <<speedVars, stateVars, obstVars, tickVars, lightVars>>
notState == <<speedVars, routeVars, obstVars, tickVars, lightVars>>
notObst == <<speedVars, routeVars, stateVars, tickVars, lightVars>>
notTick == <<speedVars, routeVars, stateVars, obstVars, lightVars>>
notLight == <<speedVars, routeVars, stateVars, obstVars, tickVars>>

Abs(n) == IF n < 0 THEN -n ELSE n
Min2(a, b) == IF a <= b THEN a ELSE b
Max2(a, b) == IF a >= b THEN a ELSE b

(***************************************************************************)
(* simulation.py: the speed model.  Lengths are integers in units of 1e-6. *)
(***************************************************************************)
speed_limit == 30
stop_distance == 3
free_distance == 5

\* Largest sensed distance and largest curvature parameter drawn.
MaxD == 34
MaxK == 7

\* A factor is 0, 1, or the quotient ln(a)/ln(b) of two logarithms of positive
\* rationals a = an/ad, b = bn/bd, kept symbolically; "zerodiv" is the
\* ZeroDivisionError of a quotient whose divisor ln(b) is 0.
Const(v) == [tag |-> "const", v |-> v, an |-> 1, ad |-> 1, bn |-> 1, bd |-> 1]
LogQuot(an, ad, bn, bd) ==
    IF bn = bd
    THEN [tag |-> "zerodiv", v |-> 0, an |-> an, ad |-> ad, bn |-> bn, bd |-> bd]
    ELSE [tag |-> "logquot", v |-> 0, an |-> an, ad |-> ad, bn |-> bn, bd |-> bd]

\* Sign of ln(n/d) for n, d > 0: ln is increasing and ln(1) = 0.
LnSign(n, d) == IF n > d THEN 1 ELSE IF n = d THEN 0 ELSE -1

\* f = 1.0 : a constant 1, or ln(a)/ln(b) with a = b.
IsOne(f) ==
    \/ f.tag = "const" /\ f.v = 1
    \/ f.tag = "logquot" /\ f.an * f.bd = f.bn * f.ad
\* f = 0.0 : a constant 0, or ln(a)/ln(b) with a = 1.
IsZero(f) ==
    \/ f.tag = "const" /\ f.v = 0
    \/ f.tag = "logquot" /\ f.an = f.ad
\* 0 <= f <= 1
InUnitInterval(f) ==
    \/ f.tag = "const" /\ f.v \in {0, 1}
    \/ /\ f.tag = "logquot"
       /\ LET sa == LnSign(f.an, f.ad)
              sb == LnSign(f.bn, f.bd)
          IN  \/ sa = 0
              \/ sa = 1 /\ sb = 1 /\ f.an * f.bd <= f.bn * f.ad
              \/ sa = -1 /\ sb = -1 /\ f.an * f.bd >= f.bn * f.ad

\* simulation.py:49-62.  theta is given by K = 2*theta/pi, so theta == 0 iff
\* K = 0 and d / (2*theta/pi) = d/K.
road_curvature_factor(K, d) ==
    IF K = 0
    THEN Const(1)
    ELSE IF (0 < d) /\ (d < free_distance)
         THEN LogQuot(d, K, free_distance, K)
         ELSE Const(1)

\* The ramp taken for every d below the upper threshold, with no test
\* against stop_distance.
car_obstacle_factor_no_stop(d) ==
    IF d < speed_limit
    THEN LogQuot(d, stop_distance, free_distance, stop_distance)
    ELSE Const(1)

\* simulation.py:65-78.
car_obstacle_factor(d) ==
    IF (stop_distance < d) /\ (d < speed_limit)
    THEN LogQuot(d, stop_distance, free_distance, stop_distance)
    ELSE IF d < stop_distance
         THEN Const(0)
         ELSE Const(1)

SpeedIdle ==
    /\ sp_pc = "idle"
    /\ sp_theta = 0
    /\ sp_d = 0
    /\ sp_curv = Const(1)
    /\ sp_obst = Const(1)

SpeedInit ==
    /\ sp_pc = "input"
    /\ sp_theta \in 0..MaxK
    /\ sp_d \in 0..MaxD
    /\ sp_curv = Const(1)
    /\ sp_obst = Const(1)

\* simulation.py:35-46: both factors are computed from angles[0], distances[0].
update_speed_factor ==
    /\ sp_pc = "input"
    /\ sp_obst' = car_obstacle_factor(sp_d)
    /\ sp_curv' = road_curvature_factor(sp_theta, sp_d)
    /\ sp_pc' = "done"
    /\ UNCHANGED <<sp_theta, sp_d>>
    /\ UNCHANGED notSpeed

(***************************************************************************)
(* navigation.py: build_new_route, the greedy re-route search.             *)
(***************************************************************************)
\* The road graphs drawn: nodes 1..NumNodes, two-way streets chosen among
\* all pairs, at most one of them made one-way.
Nodes == 1..5
\* Iterations of the while loop the model follows.
MaxIter == 7
\* Streets drawn beside those of the route.
MaxExtra == 4

\* Node positions with integer pairwise distances (a 3-4-5 rhombus and its
\* centre), so that np.linalg.norm is exact.
Layouts ==
    { <<  <<-3, 0>>, <<0, 0>>, <<3, 0>>, <<0, 4>>, <<0, -4>>  >>,
      <<  <<0, 4>>, <<0, -4>>, <<0, 0>>, <<3, 0>>, <<-3, 0>>  >>,
      <<  <<0, 0>>, <<-3, 0>>, <<0, 4>>, <<0, -4>>, <<3, 0>>  >> }

\* The routes drawn (simple paths, as nx.shortest_path returns them).
Routes == { <<1, 2>>, <<1, 2, 3>>, <<1, 2, 3, 4>> }

RECURSIVE ISqrt(_, _)
ISqrt(n, r) == IF (r + 1) * (r + 1) > n THEN r ELSE ISqrt(n, r + 1)
\* np.linalg.norm(p - q); exact on the layouts above.
Norm(p, q) ==
    ISqrt((p[1] - q[1]) * (p[1] - q[1]) + (p[2] - q[2]) * (p[2] - q[2]), 0)

Range(s) == { s[k] : k \in 1..Len(s) }
RECURSIVE SetToSeq(_)
\* The elements of a set of numbers in ascending order.
SetToSeq(S) ==
    IF S = {} THEN <<>>
    ELSE LET m == CHOOSE x \in S : \A y \in S : x <= y
         IN  <<m>> \o SetToSeq(S \ {m})
\* list.index(x), 1-based; 0 when x is not in the list (Python raises ValueError).
IndexOf(s, x) ==
    IF x \in Range(s) THEN CHOOSE k \in 1..Len(s) : s[k] = x /\ \A j \in 1..(k - 1) : s[j] # x
    ELSE 0
\* list.pop(k) for a 1-based k.
RemoveAt(s, k) == SubSeq(s, 1, k - 1) \o SubSeq(s, k + 1, Len(s))
RECURSIVE SumSeq(_)
SumSeq(s) == IF s = <<>> THEN 0 ELSE Head(s) + SumSeq(Tail(s))

\* str() of a float holding the whole number n, as character codes:
\* '.' is 0, the digit c is c + 1; 'disqualified' starts with a letter, which
\* sorts after every digit.
RECURSIVE DigitsOf(_)
DigitsOf(n) == IF n < 10 THEN <<n + 1>> ELSE DigitsOf(n \div 10) \o <<(n % 10) + 1>>
FloatStr(n) == DigitsOf(n) \o <<0, 1>>
Disqualified == <<100>>
RECURSIVE StrLess(_, _)
\* s < t for strings, character by character.
StrLess(s, t) ==
    IF t = <<>> THEN FALSE
    ELSE IF s = <<>> THEN TRUE
    ELSE IF Head(s) # Head(t) THEN Head(s) < Head(t)
    ELSE StrLess(Tail(s), Tail(t))

\* navigation.py:478-482: the positions of the next three nodes of the route.
next_nodes_pos(route, reroute_index, pos) ==
    [k \in 1..(Min2(Len(route), reroute_index + 3) - reroute_index) |->
        pos[route[reroute_index + k]]]

\* navigation.py:502-506: the summed distance of a node to next_nodes_pos.
sum_distances(node, nnp, pos) ==
    SumSeq([k \in 1..Len(nnp) |-> Norm(nnp[k], pos[node])])

\* navigation.py:495-499: the node has no way out but back to direction.
is_dead_end(node, direction, adj) ==
    LET twice_out == adj[node]
        k == IndexOf(twice_out, direction)
    IN  (IF k > 0 THEN RemoveAt(twice_out, k) ELSE twice_out) = <<>>

RECURSIVE sum_three_node_dist(_, _, _, _, _)
\* navigation.py:493-506: one entry per candidate, and before it the entry
\* 'disqualified' for a dead end (the loop body goes on after appending it).
\* An entry is <<"num", n>> or <<"disq", 0>>.
sum_three_node_dist(out, direction, nnp, adj, pos) ==
    IF out = <<>> THEN <<>>
    ELSE (IF is_dead_end(Head(out), direction, adj) THEN << <<"disq", 0>> >> ELSE <<>>)
         \o << <<"num", sum_distances(Head(out), nnp, pos)>> >>
         \o sum_three_node_dist(Tail(out), direction, nnp, adj, pos)

\* navigation.py:508-509: np.array(...).argsort()[0], 1-based.  A list holding
\* a string becomes an array of strings and is ordered as strings; otherwise
\* it is ordered as numbers.  Equal entries keep their order.
argsort_first(sums) ==
    LET asStrings == \E k \in 1..Len(sums) : sums[k][1] = "disq"
        key(k) == IF sums[k][1] = "disq" THEN Disqualified ELSE FloatStr(sums[k][2])
        less(a, b) == IF asStrings THEN StrLess(key(a), key(b))
                      ELSE sums[a][2] < sums[b][2]
    IN  CHOOSE k \in 1..Len(sums) :
            /\ \A j \in 1..Len(sums) : ~less(j, k)
            /\ \A j \in 1..(k - 1) : less(k, j)

\* The tail starting at next_node itself, which new_route already holds.
route_suffix_from(route, next_node) ==
    SubSeq(route, IndexOf(route, next_node), Len(route))

\* navigation.py:512-516: the tail appended when next_node is on the route
\* beyond the departure node: the route after the first place next_node holds.
route_suffix_after(route, next_node) ==
    SubSeq(route, IndexOf(route, next_node) + 1, Len(route))

reconnects(route, reroute_index, next_node) ==
    \E k \in (reroute_index + 1)..Len(route) : route[k] = next_node

\* The symmetric graph on the chosen streets, minus the arcs closed.
Pairs == { e \in Nodes \X Nodes : e[1] < e[2] }
RouteStreets(route) == { <<Min2(route[k], route[k + 1]), Max2(route[k], route[k + 1])>> :
                         k \in 1..(Len(route) - 1) }
AdjOf(streets, closed) ==
    [n \in Nodes |-> SetToSeq({ m \in Nodes :
        /\ (<<n, m>> \in streets \/ <<m, n>> \in streets)
        /\ <<n, m>> \notin closed })]

RouteIdle ==
    /\ rt_pc = "idle"
    /\ rt_adj = [n \in Nodes |-> <<>>]
    /\ rt_pos = <<>>
    /\ rt_route = <<>>
    /\ rt_reroute_index = 0
    /\ rt_reroute_node = 0
    /\ rt_direction = 0
    /\ rt_new_route = <<>>
    /\ rt_i = 0
    /\ rt_detour = <<>>
    /\ rt_seen = {}

\* navigation.py:474-485: the state on entering the while loop, for a call
\* build_new_route(route, reroute_node, direction) with direction a neighbour
\* of reroute_node off the route.
RouteInit ==
    \E route \in Routes, layout \in Layouts :
      \E extra \in SUBSET (Pairs \ RouteStreets(route)) :
      LET streets == RouteStreets(route) \cup extra IN
      \E closed \in {{}} \cup { {<<e[2], e[1]>>} : e \in extra } :
      \E ri \in 1..(Len(route) - 1) :
      \E direction \in Nodes \ Range(route) :
        /\ Cardinality(extra) <= MaxExtra
        /\ rt_adj = AdjOf(streets, closed)
        /\ direction \in Range(rt_adj[route[ri]])
        /\ rt_pos = layout
        /\ rt_route = route
        /\ rt_reroute_index = ri
        /\ rt_reroute_node = route[ri]
        /\ rt_direction = direction
        /\ rt_new_route = SubSeq(route, 1, ri) \o <<direction>>
        /\ rt_i = 0
        /\ rt_detour = <<direction>>
        /\ rt_seen = {}
        /\ rt_pc = "search"

\* navigation.py:486-519: one iteration of the while loop.
SearchStep ==
    /\ rt_pc = "search"
    /\ rt_i < MaxIter
    /\ rt_i' = rt_i + 1
    /\ rt_seen' = rt_seen \cup {<<rt_reroute_node, rt_direction>>}
    /\ LET out0 == rt_adj[rt_direction]
           back == IndexOf(out0, rt_reroute_node)
       IN  IF back = 0
           THEN \* list.index raises ValueError
                /\ rt_pc' = "error"
                /\ UNCHANGED <<rt_reroute_node, rt_direction, rt_new_route, rt_detour>>
           ELSE
             LET out_from_direction == RemoveAt(out0, back)
                 nnp == next_nodes_pos(rt_route, rt_reroute_index, rt_pos)
                 sums == sum_three_node_dist(out_from_direction, rt_direction, nnp,
                                             rt_adj, rt_pos)
             IN  IF sums = <<>> \/ argsort_first(sums) > Len(out_from_direction)
                 THEN \* IndexError: argsort()[0] of nothing, or an index past the list
                      /\ rt_pc' = "error"
                      /\ UNCHANGED <<rt_reroute_node, rt_direction, rt_new_route, rt_detour>>
                 ELSE
                   LET next_node == out_from_direction[argsort_first(sums)] IN
                   IF reconnects(rt_route, rt_reroute_index, next_node)
                   THEN /\ rt_new_route' = rt_new_route \o <<next_node>>
                                           \o route_suffix_after(rt_route, next_node)
                        /\ rt_pc' = "done"
                        /\ UNCHANGED <<rt_reroute_node, rt_direction, rt_detour>>
                   ELSE /\ rt_new_route' = Append(rt_new_route, next_node)
                        /\ rt_detour' = Append(rt_detour, next_node)
                        /\ rt_reroute_node' = rt_direction
                        /\ rt_direction' = next_node
                        /\ rt_pc' = "search"
    /\ UNCHANGED <<rt_adj, rt_pos, rt_route, rt_reroute_index>>
    /\ UNCHANGED notRoute


(***************************************************************************)
(* navigation.py: StateView, the classification of a car's journey state.  *)
(***************************************************************************)
max_cars == 10
bin_size == 200
\* Lights and route nodes drawn for one classification.
MaxLights == 2
MaxRouteLen == 3

StateNodes == 1..4
\* get_position_of_node on the classified map: nodes 1 and 2 share a bin.
StateXY == << <<50, 50>>, <<150, 50>>, <<250, 50>>, <<250, 250>> >>
\* The plot axis [xmin, xmax, ymin, ymax] given to StateView.
StateAxis == <<0, 1000, 0, 1000>>
SwitchTimes == {30, 60}

\* A return value of determine_state: a list of six flags, the string
\* 'not finished', or None when the function falls off its end.
FlagList(flags) == [kind |-> "list", flags |-> flags]
NotFinished == [kind |-> "str", flags |-> <<>>]
NoneValue == [kind |-> "none", flags |-> <<>>]

\* np.digitize(x, np.arange(lo, hi, bin_size)): the number of bin edges <= x.
Digitize(x, lo, hi) ==
    Cardinality({ k \in 0..((hi - lo - 1) \div bin_size) : lo + k * bin_size <= x })

\* navigation.py:206-234: the bins the route passes, a bin repeated by the
\* next node left out.
get_bins_in_route(route) ==
    LET ind == [k \in 1..Len(route) |->
                  <<Digitize(StateXY[route[k]][1], StateAxis[1], StateAxis[2]),
                    Digitize(StateXY[route[k]][2], StateAxis[3], StateAxis[4])>>]
        kept == SelectSeq([k \in 1..(Len(route) - 1) |-> k],
                          LAMBDA k : ind[k] # ind[k + 1])
    IN  [j \in 1..Len(kept) |-> ind[kept[j]]] \o <<ind[Len(route)]>>

\* navigation.py:188-204: the bins of the route holding more than max_cars cars.
\* cars is the list of the cars' (xbin, ybin).
get_traffic_bins(route, cars) ==
    SelectSeq(get_bins_in_route(route),
              LAMBDA b : Cardinality({ c \in 1..Len(cars) : cars[c] = b }) > max_cars)

\* Series.argsort() of the switch-times: the light ids (1-based places in the
\* frame) by ascending switch-time, equal switch-times in frame order.
RECURSIVE switch_time_argsort(_, _)
switch_time_argsort(lights, left) ==
    IF left = {} THEN <<>>
    ELSE LET m == CHOOSE a \in left : \A b \in left :
                      \/ lights[a].switch < lights[b].switch
                      \/ lights[a].switch = lights[b].switch /\ a <= b
         IN  <<m>> \o switch_time_argsort(lights, left \ {m})

\* navigation.py:174-186: the ids of the lights on the route, by switch-time.
get_lights_in_route(route, lights) ==
    LET on_route == { CHOOSE a \in 1..Len(lights) :
                          /\ lights[a].node = route[k]
                          /\ \A b \in 1..(a - 1) : lights[b].node # route[k] :
                      k \in { j \in 1..Len(route) :
                                \E a \in 1..Len(lights) : lights[a].node = route[j] } }
    IN  SelectSeq(switch_time_argsort(lights, 1..Len(lights)),
                  LAMBDA id : id \in on_route)

\* navigation.py:151-157: the node of the route before the light's node;
\* the index 0 - 1 = -1 is Python's last element.
reroute_node_for(route, light_node) ==
    LET at == IndexOf(route, light_node)
    IN  IF at - 1 >= 1 THEN route[at - 1] ELSE route[Len(route)]

\* navigation.py:136-172.
determine_state(route, destination, lights, cars) ==
    IF route[1] # destination
    THEN LET light_locs == get_lights_in_route(route, lights)
             traffic_bins == get_traffic_bins(route, cars)
         IN  IF light_locs # <<>> \/ traffic_bins # <<>>
             THEN IF light_locs # <<>>
                  THEN NotFinished
                  ELSE NoneValue
             ELSE FlagList(<<0, 0, 0, 1, 0, 0>>)
    ELSE FlagList(<<0, 0, 0, 0, 0, 1>>)

\* The routes classified: simple paths over the nodes; the destination is the
\* last node of the route.
StateRoutes ==
    { r \in UNION { [1..n -> StateNodes] : n \in 1..MaxRouteLen } :
        \A a, b \in 1..Len(r) : a # b => r[a] # r[b] }
\* The lights frame: at most MaxLights lights, on different nodes.
LightFrames ==
    { l \in UNION { [1..n -> [node : StateNodes, switch : SwitchTimes]] : n \in 0..MaxLights } :
        \A a, b \in 1..Len(l) : a # b => l[a].node # l[b].node }
\* The cars frame, by bins: no car, or a bin holding max_cars or one more.
CarFrames ==
    { [k \in 1..n |-> b] : n \in {0, max_cars, max_cars + 1},
                           b \in { <<1, 1>>, <<2, 1>>, <<2, 2>> } }

StateIdle ==
    /\ st_pc = "idle"
    /\ st_route = <<>>
    /\ st_destination = 0
    /\ st_lights = <<>>
    /\ st_cars = <<>>
    /\ st_state = NoneValue
    /\ st_reroute_node = 0
    /\ st_light_node = 0

\* navigation.py:125-134: a StateView of one car.
StateInit ==
    /\ st_pc = "view"
    /\ st_route \in StateRoutes
    /\ st_destination = st_route[Len(st_route)]
    /\ st_lights \in LightFrames
    /\ st_cars \in CarFrames
    /\ st_state = NoneValue
    /\ st_reroute_node = 0
    /\ st_light_node = 0

\* One call of determine_state on the view.
DetermineState ==
    /\ st_pc = "view"
    /\ st_state' = determine_state(st_route, st_destination, st_lights, st_cars)
    /\ LET light_locs == get_lights_in_route(st_route, st_lights)
       IN  IF st_route[1] # st_destination /\ light_locs # <<>>
           THEN /\ st_light_node' = st_lights[light_locs[Len(light_locs)]].node
                /\ st_reroute_node' = reroute_node_for(st_route, st_light_node')
           ELSE /\ st_light_node' = 0
                /\ st_reroute_node' = 0
    /\ st_pc' = "classified"
    /\ UNCHANGED <<st_route, st_destination, st_lights, st_cars>>
    /\ UNCHANGED notState

(***************************************************************************)
(* navigation.py: FrontView, car_obstacles and light_obstacles.            *)
(***************************************************************************)
look_ahead_nodes == 3
\* Samples np.linspace takes on each leg of the look-ahead strip.
LinSamples == 4
\* Other cars and lights drawn for one sensing call.
MaxOthers == 2
MaxNearLights == 2

\* np.isclose(a, b, rtol=1.0e-6) with the default atol=1.0e-8, for a = num/den:
\* |a - b| <= atol + rtol * |b|, both sides times 1e8 * den (the first
\* conjunct follows from the second and keeps the product a 32-bit integer).
IsCloseQ(num, den, b) ==
    /\ Abs(num - b * den) <= 21
    /\ Abs(num - b * den) * 1000000 <= (den * (1 + 100 * Abs(b))) \div 100
IsClose(a, b) == IsCloseQ(a, 1, b)

\* models.magnitude: the Euclidean length of a vector.
magnitude(v) == Norm(v, <<0, 0>>)

\* models.determine_parallel_vectors: the two vectors lie along one line.
determine_parallel_vectors(u, v) == u[1] * v[2] - u[2] * v[1] = 0

\* navigation.py:33-43: the next look_ahead_nodes waypoints; <<>> is False.
determine_view(car) ==
    IF car.xpath # <<>> /\ car.ypath # <<>>
    THEN [k \in 1..Min2(look_ahead_nodes, Min2(Len(car.xpath), Len(car.ypath))) |->
            <<car.xpath[k], car.ypath[k]>>]
    ELSE <<>>

\* models.upcoming_linspace: the samples, on one axis, of the legs from the
\* car's position through the waypoints of the view; each sample is a
\* numerator over LinSamples - 1.
upcoming_linspace(car, axis) ==
    LET pts == << <<car.x, car.y>> >> \o determine_view(car)
    IN  { pts[k][axis] * (LinSamples - 1) + j * (pts[k + 1][axis] - pts[k][axis]) :
            k \in 1..(Len(pts) - 1), j \in 0..(LinSamples - 1) }
\* ndarray.any(): some sample is not zero.
AnySample(space) == \E s \in space : s # 0
\* np.isclose(space, c, rtol=1.0e-6).any()
within_linspace(space, c) == \E s \in space : IsCloseQ(s, LinSamples - 1, c)

\* What a sensing function returns: a distance, False, None, or an exception.
Distance(d) == [kind |-> "distance", d |-> d]
FalseValue == [kind |-> "false", d |-> 0]
NoneResult == [kind |-> "none", d |-> 0]
Raised == [kind |-> "error", d |-> 0]

SameBin(car, other) == car.xbin = other.xbin /\ car.ybin = other.ybin
in_strip(car, other) ==
    /\ within_linspace(upcoming_linspace(car, 1), other.x)
    /\ within_linspace(upcoming_linspace(car, 2), other.y)

\* navigation.py:237-270.  other_cars is cars.drop(frontview.car.name).  The
\* loop over nearby_cars returns in its first iteration, either way.
car_obstacles(car, other_cars) ==
    IF AnySample(upcoming_linspace(car, 1)) /\ AnySample(upcoming_linspace(car, 2))
    THEN LET nearby_cars == SelectSeq(other_cars, LAMBDA o : SameBin(car, o))
         IN  IF nearby_cars # <<>>
             THEN IF in_strip(car, nearby_cars[1])
                  THEN Distance(magnitude(<<nearby_cars[1].x - car.x,
                                            nearby_cars[1].y - car.y>>))
                  ELSE FalseValue
             ELSE FalseValue
    ELSE FalseValue

\* What building face_vectors gives: the list, or the IndexError of an index
\* past the end of a list.
IndexError == [raised |-> TRUE, vectors |-> <<>>]
FaceList(vectors) == [raised |-> FALSE, vectors |-> vectors]

\* The same read over range(degree + 1).
face_vectors_through_degree(light) ==
    IF light.degree + 1 > Len(light.xv) \/ light.degree + 1 > Len(light.yv)
    THEN IndexError
    ELSE FaceList([i \in 1..(light.degree + 1) |-> <<light.xv[i], light.yv[i]>>])

\* navigation.py:298-299: the vectors of the faces 0..degree-1, read by index
\* from out-xvectors and out-yvectors.
face_vectors(light) ==
    IF light.degree > Len(light.xv) \/ light.degree > Len(light.yv)
    THEN IndexError
    ELSE FaceList([i \in 1..light.degree |-> <<light.xv[i], light.yv[i]>>])

\* navigation.py:296-306: a red face of the light along the car's vector;
\* zip stops at the shorter of go-values and the face vectors.
red_parallel_face(car, light) ==
    LET car_vector == <<light.x - car.x, light.y - car.y>>
        vectors == face_vectors(light).vectors
    IN  \E i \in 1..Min2(Len(light.go), Len(vectors)) :
            /\ ~light.go[i]
            /\ determine_parallel_vectors(car_vector, vectors[i])

RECURSIVE scan_lights(_, _)
\* navigation.py:291-308: the loop over nearby_lights.  A light off the strip
\* returns False; a light on it with no red parallel face goes on to the next;
\* the end of the loop returns None.  Reading face i < degree past the end of
\* the vectors raises IndexError.
scan_lights(car, nearby) ==
    IF nearby = <<>> THEN NoneResult
    ELSE LET light == Head(nearby) IN
         IF in_strip(car, light)
         THEN IF face_vectors(light).raised
              THEN Raised
              ELSE IF red_parallel_face(car, light)
                   THEN Distance(magnitude(<<light.x - car.x, light.y - car.y>>))
                   ELSE scan_lights(car, Tail(nearby))
         ELSE FalseValue

\* navigation.py:273-312.
light_obstacles(car, lights) ==
    IF AnySample(upcoming_linspace(car, 1)) /\ AnySample(upcoming_linspace(car, 2))
    THEN LET nearby_lights == SelectSeq(lights, LAMBDA l : SameBin(car, l))
         IN  IF nearby_lights # <<>>
             THEN scan_lights(car, nearby_lights)
             ELSE FalseValue
    ELSE FalseValue

\* The bin of a position on the 200-wide grid of the axis.
BinOf(p) == <<Digitize(p[1], StateAxis[1], StateAxis[2]),
              Digitize(p[2], StateAxis[3], StateAxis[4])>>
CarAt(p, xpath, ypath) ==
    [x |-> p[1], y |-> p[2], xbin |-> BinOf(p)[1], ybin |-> BinOf(p)[2],
     xpath |-> xpath, ypath |-> ypath]
\* A light with faces toward the west and the north.
LightAt(p, go) ==
    [x |-> p[1], y |-> p[2], xbin |-> BinOf(p)[1], ybin |-> BinOf(p)[2],
     degree |-> 2, xv |-> <<-1, 0>>, yv |-> <<0, 1>>, go |-> go]

\* The sensing car drives east along y = 1 from (1, 1) over the waypoints
\* (4, 1), (7, 1); candidates lie on the street, beside it, or in another bin.
OtherPositions == { <<2, 1>>, <<3, 1>>, <<6, 1>>, <<2, 2>>, <<205, 1>> }
LightPositions == { <<4, 1>>, <<7, 1>>, <<4, 3>> }
OtherFrames ==
    UNION { [1..n -> { CarAt(p, <<>>, <<>>) : p \in OtherPositions }] : n \in 0..MaxOthers }
NearLightFrames ==
    UNION { [1..n -> { LightAt(p, go) : p \in LightPositions,
                                        go \in [1..2 -> BOOLEAN] }] : n \in 0..MaxNearLights }

ObstIdle ==
    /\ ob_pc = "idle"
    /\ ob_car = CarAt(<<0, 0>>, <<>>, <<>>)
    /\ ob_others = <<>>
    /\ ob_lights = <<>>
    /\ ob_dcar = NoneResult
    /\ ob_dlight = NoneResult

ObstInit ==
    /\ ob_pc = "lights"
    /\ ob_car = CarAt(<<1, 1>>, <<4, 7>>, <<1, 1>>)
    /\ ob_others \in OtherFrames
    /\ ob_lights \in NearLightFrames
    /\ ob_dcar = NoneResult
    /\ ob_dlight = NoneResult

\* cars.py:65-73 and navigation.py:54-61: the distance to a red light.
find_light_obstacles ==
    /\ ob_pc = "lights"
    /\ ob_dlight' = light_obstacles(ob_car, ob_lights)
    /\ ob_pc' = "cars"
    /\ UNCHANGED <<ob_car, ob_others, ob_lights, ob_dcar>>
    /\ UNCHANGED notObst

\* cars.py:53-63 and navigation.py:45-52: the distance to a car.
find_car_obstacles ==
    /\ ob_pc = "cars"
    /\ ob_dcar' = car_obstacles(ob_car, ob_others)
    /\ ob_pc' = "sensed"
    /\ UNCHANGED <<ob_car, ob_others, ob_lights, ob_dlight>>
    /\ UNCHANGED notObst

(***************************************************************************)
(* cars.py: Cars.update, one tick over the rows of the cars frame.         *)
(***************************************************************************)
\* dt = 1/1000: a velocity v moves a car by v / dt_inverse in one tick.
dt_inverse == 1000
\* Ticks the model follows.
MaxTicks == 6
\* The fastest car drawn moves MaxStep units in one tick.
MaxStep == 6

\* The street of the tick model: nodes 1, 2, 3 in a row, Leg apart, at
\* coordinates large enough for rtol=1.0e-6 to make a window of +-2 units.
TickOrigin == 2000000
Leg == 7
TickXY == [n \in 1..3 |-> <<TickOrigin + (n - 1) * Leg, TickOrigin>>]
\* navigation.py:395-406.
get_position_of_node(node) == TickXY[node]

\* The same test with the coordinates compared for equality.
crossed_node_event_exact(car) ==
    LET view == determine_view(car)
    IN  view[1][1] = car.x /\ view[1][2] = car.y

\* navigation.py:92-105: the car is at the first waypoint of its view,
\* within the tolerance, on both axes.
crossed_node_event(car) ==
    LET view == determine_view(car)
    IN  IsClose(view[1][1], car.x) /\ IsClose(view[1][2], car.y)

\* navigation.py:74-90.
upcoming_node_position(car) ==
    LET view == determine_view(car)
    IN  IF view # <<>>
        THEN IF crossed_node_event(car)
             THEN IF Len(view) >= 2 THEN view[2]
                  ELSE get_position_of_node(car.destination)
             ELSE view[1]
        ELSE get_position_of_node(car.destination)

\* navigation.py:63-72.
distance_to_node(car) ==
    LET next_node == upcoming_node_position(car)
    IN  magnitude(<<next_node[1] - car.x, next_node[2] - car.y>>)

\* sim.update_path: on a crossing the view window advances, so that the second
\* waypoint becomes the next one; the waypoints are the nodes of the route, so
\* the route advances to the node just passed.
update_path(car) ==
    IF determine_view(car) # <<>> /\ crossed_node_event(car)
    THEN [car EXCEPT !.xpath = Tail(car.xpath), !.ypath = Tail(car.ypath),
                     !.route = Tail(car.route)]
    ELSE car

\* simulation.py:21-26: update_velocity has no body and returns None.
update_velocity(car) == "None"

\* sim.car_timer: the time the car spent on its route in this tick.
car_timer(car) == 1

\* cars.py:47-48: the new coordinate.
advance(coordinate, velocity) == coordinate + velocity \div dt_inverse

\* cars.py:53-63: the other rows of the frame as it is now, given to
\* car_obstacles with the car.
find_car_obstacles_in(frame, i) ==
    car_obstacles(frame[i], RemoveAt(frame, i))

\* cars.py:41-49: the body of the loop for row i, reading the frame as it is
\* when the row's turn comes.
update_row(frame, i, lights) ==
    LET car0 == frame[i]
        car1 == [car0 EXCEPT !.dlight = light_obstacles(car0, lights)]
        car2 == [car1 EXCEPT !.dcar = find_car_obstacles_in(frame, i)]
        car3 == [car2 EXCEPT !.dnode = distance_to_node(car2)]
        car4 == update_path(car3)
        car5 == [car4 EXCEPT !.velocity = update_velocity(car4)]
        car6 == [car5 EXCEPT !.x = advance(car5.x, car5.vx)]
        car7 == [car6 EXCEPT !.y = advance(car6.y, car6.vy)]
    IN  [car7 EXCEPT !.rtime = car7.rtime + car_timer(car7)]

RECURSIVE update_rows(_, _, _)
\* cars.py:41: the loop over the rows, each written before the next is read.
update_rows(frame, i, lights) ==
    IF i > Len(frame) THEN frame
    ELSE update_rows([frame EXCEPT ![i] = update_row(frame, i, lights)], i + 1, lights)

\* A car of the frame at the start of a run: on the street at x, heading for
\* node 3 over the nodes 2 and 3, with the velocity column vx.
TickCar(x, vx) ==
    [x |-> x, y |-> TickOrigin, vx |-> vx, vy |-> 0,
     xpath |-> <<TickXY[2][1], TickXY[3][1]>>, ypath |-> <<TickXY[2][2], TickXY[3][2]>>,
     route |-> <<1, 2, 3>>, destination |-> 3,
     xbin |-> BinOf(<<x, TickOrigin>>)[1], ybin |-> BinOf(<<x, TickOrigin>>)[2],
     dlight |-> NoneResult, dcar |-> NoneResult, dnode |-> 0,
     velocity |-> "zero", rtime |-> 0]
TickStarts == { TickOrigin + k : k \in 0..4 }
TickVelocities == { s * dt_inverse : s \in 0..MaxStep }
TickFrames == [1..2 -> { TickCar(x, v) : x \in TickStarts, v \in TickVelocities }]
\* No light, or one at node 2 with its west face red or green.
TickLights ==
    { <<>> } \cup { << LightAt(TickXY[2], go) >> : go \in { <<FALSE, TRUE>>, <<TRUE, TRUE>> } }

TickIdle ==
    /\ tk_pc = "idle"
    /\ tk_cars = <<>>
    /\ tk_prev = <<>>
    /\ tk_lights = <<>>
    /\ tk_time = 0
    /\ tk_fired = <<>>

\* cars.py:13-23: Cars(init_state).
TickInit ==
    /\ tk_pc = "run"
    /\ tk_cars \in TickFrames
    /\ tk_prev = tk_cars
    /\ tk_lights \in TickLights
    /\ tk_time = 0
    /\ tk_fired = [i \in 1..2 |-> <<0, 0>>]

\* cars.py:25-51: Cars.update(dt, lights_state).  tk_prev keeps the frame of
\* the start of the tick; tk_fired counts, for each car and waypoint, the
\* ticks on which crossed_node_event was true of it.
CarsUpdate ==
    /\ tk_pc = "run"
    /\ tk_time < MaxTicks
    /\ tk_time' = tk_time + 1
    /\ tk_prev' = tk_cars
    /\ tk_cars' = update_rows(tk_cars, 1, tk_lights)
    /\ tk_fired' = [i \in 1..Len(tk_cars) |->
         LET car == tk_cars[i]
             w == Len(tk_fired[i]) - Len(car.xpath) + 1
         IN  IF determine_view(car) # <<>> /\ crossed_node_event(car)
             THEN [tk_fired[i] EXCEPT ![w] = @ + 1]
             ELSE tk_fired[i]]
    /\ UNCHANGED <<tk_pc, tk_lights>>
    /\ UNCHANGED notTick

(***************************************************************************)
(* navigation.py: find_traffic_lights and determine_pedigree; cars.py:     *)
(* TrafficLights.  One light, at node 1 of a junction.                     *)
(***************************************************************************)
\* Calls of TrafficLights.update the model follows.
MaxLightTicks == 3
\* Self-loops drawn at the light's node.
MaxLoops == 1
prescale == 10

\* The junction: node 1 at (4, 1), its neighbours 2, 3, 4 to the west, east
\* and north.  Every edge is a straight line with no geometry attribute.
JunctionXY == << <<4, 1>>, <<1, 1>>, <<7, 1>>, <<4, 4>> >>
\* A street between node 1 and a neighbour: none, both ways, or one way.
StreetKinds == {"none", "two-way", "out", "in"}

\* G.edges() of the directed multigraph: the edges out of node 1 (its
\* self-loops last), then the edges out of the neighbours.
GraphEdges(kinds, loops) ==
    LET outward == SelectSeq(<<2, 3, 4>>, LAMBDA m : kinds[m] \in {"two-way", "out"})
        inward == SelectSeq(<<2, 3, 4>>, LAMBDA m : kinds[m] \in {"two-way", "in"})
    IN  [k \in 1..Len(outward) |-> <<1, outward[k]>>]
        \o [k \in 1..loops |-> <<1, 1>>]
        \o [k \in 1..Len(inward) |-> <<inward[k], 1>>]

\* G.degree() of a node: the edges out of it plus the edges into it, a
\* self-loop counted twice.
G_degree(edges, node) ==
    Cardinality({ k \in 1..Len(edges) : edges[k][1] = node })
    + Cardinality({ k \in 1..Len(edges) : edges[k][2] = node })

\* navigation.py:368-379: the (node, degree) pairs of the nodes of degree > 3
\* at every prescale-th place of G.degree().
find_traffic_lights(edges) ==
    LET places == SelectSeq([n \in 1..Len(JunctionXY) |-> n],
                            LAMBDA n : G_degree(edges, n) > 3 /\ (n - 1) % prescale = 0)
    IN  [k \in 1..Len(places) |-> <<places[k], G_degree(edges, places[k])>>]

RECURSIVE pop_reciprocal(_, _, _)
\* navigation.py:333-335: the inner loop; right_edges.pop(i) inside
\* enumerate(right_edges) makes the loop pass over the edge that moves to i.
pop_reciprocal(left, right_edges, i) ==
    IF i > Len(right_edges) THEN right_edges
    ELSE IF left[2] = right_edges[i][1] /\ right_edges[i][2] = left[1]
         THEN pop_reciprocal(left, RemoveAt(right_edges, i), i + 1)
         ELSE pop_reciprocal(left, right_edges, i + 1)

RECURSIVE drop_reciprocals(_, _)
\* navigation.py:332-335: the outer loop over left_edges.
drop_reciprocals(left_edges, right_edges) ==
    IF left_edges = <<>> THEN right_edges
    ELSE drop_reciprocals(Tail(left_edges),
                          pop_reciprocal(Head(left_edges), right_edges, 1))

\* navigation.py:536-569: the lines of the edges of the shortest path.  At the
\* junction the only path from node 1 to a neighbour is the edge to it; with
\* no path nx.shortest_path raises NetworkXNoPath.
lines_to_node(origin, destination, edges) ==
    IF origin = destination THEN [nopath |-> FALSE, lines |-> <<>>]
    ELSE IF \E k \in 1..Len(edges) : edges[k] = <<origin, destination>>
         THEN [nopath |-> FALSE,
               lines |-> << <<JunctionXY[origin], JunctionXY[destination]>> >>]
         ELSE [nopath |-> TRUE, lines |-> <<>>]

\* navigation.py:338-343: the far node of every edge at the intersection.
out_nodes_of(node_id, edges) ==
    LET left_edges == SelectSeq(edges, LAMBDA e : e[1] = node_id)
        right_edges == SelectSeq(edges, LAMBDA e : e[2] = node_id)
        intersection_edges == left_edges \o drop_reciprocals(left_edges, right_edges)
    IN  [k \in 1..Len(intersection_edges) |->
            IF intersection_edges[k][1] = node_id THEN intersection_edges[k][2]
            ELSE intersection_edges[k][1]]

RECURSIVE face_vectors_of(_, _, _)
\* navigation.py:345-353: one vector for each out node; an out node with no
\* line to it (IndexError) is passed over.
face_vectors_of(node_id, out_nodes, edges) ==
    IF out_nodes = <<>> THEN <<>>
    ELSE LET lines == lines_to_node(node_id, Head(out_nodes), edges).lines
             rest == face_vectors_of(node_id, Tail(out_nodes), edges)
         IN  IF lines = <<>> THEN rest
             ELSE << <<lines[1][2][1] - JunctionXY[node_id][1],
                       lines[1][2][2] - JunctionXY[node_id][2]>> >> \o rest

\* navigation.py:315-355: the vectors, or the exception that leaves the
\* function (NetworkXNoPath is not caught).
determine_pedigree(node_id, edges) ==
    LET out_nodes == out_nodes_of(node_id, edges)
    IN  IF \E k \in 1..Len(out_nodes) : lines_to_node(node_id, out_nodes[k], edges).nopath
        THEN [raised |-> TRUE, vectors |-> <<>>]
        ELSE [raised |-> FALSE, vectors |-> face_vectors_of(node_id, out_nodes, edges)]

\* The light built for a node: its pedigree is the vectors determine_pedigree
\* gave, each with a go flag, and its degree is the number of faces kept.
new_traffic_light(node_id, vectors, go, switch) ==
    [node |-> node_id,
     x |-> JunctionXY[node_id][1], y |-> JunctionXY[node_id][2],
     xbin |-> BinOf(JunctionXY[node_id])[1], ybin |-> BinOf(JunctionXY[node_id])[2],
     degree |-> Len(vectors),
     xv |-> [k \in 1..Len(vectors) |-> vectors[k][1]],
     yv |-> [k \in 1..Len(vectors) |-> vectors[k][2]],
     go |-> go, switch |-> switch]
NoLight == new_traffic_light(1, <<>>, <<>>, 1)

\* sim.new_light_instructions: at every multiple of the switch-time each face
\* changes; at other times there is nothing to do (None).
new_light_instructions(light, time_elapsed) ==
    IF time_elapsed % light.switch = 0
    THEN [i \in 1..Len(light.go) |-> ~light.go[i]]
    ELSE <<>>

\* cars.py:98-100: light['pedigree'][i]['go'] = instruction, for each
\* instruction.
set_go(light, new_instructions) ==
    [light EXCEPT !.go = [i \in 1..Len(light.go) |->
                            IF i <= Len(new_instructions) THEN new_instructions[i]
                            ELSE light.go[i]]]

LightIdle ==
    /\ lt_pc = "idle"
    /\ lt_edges = <<>>
    /\ lt_light = NoLight
    /\ lt_time = 0
    /\ lt_dlight = NoneResult

\* The graph loaded, with node 1 among find_traffic_lights().
LightInit ==
    /\ lt_pc = "graph"
    /\ \E kinds \in [2..4 -> StreetKinds], loops \in 0..MaxLoops :
          lt_edges = GraphEdges(kinds, loops)
    /\ find_traffic_lights(lt_edges) # <<>>
    /\ lt_light = NoLight
    /\ lt_time = 0
    /\ lt_dlight = NoneResult

\* The light is built, cars.py:77-85 takes it as its state.
BuildLight ==
    /\ lt_pc = "graph"
    /\ LET node_id == find_traffic_lights(lt_edges)[1][1]
           pedigree == determine_pedigree(node_id, lt_edges)
       IN  IF pedigree.raised
           THEN lt_pc' = "raised" /\ lt_light' = lt_light
           ELSE /\ lt_pc' = "lit"
                /\ \E go \in [1..Len(pedigree.vectors) -> BOOLEAN], switch \in {1, 2} :
                      lt_light' = new_traffic_light(node_id, pedigree.vectors, go, switch)
    /\ UNCHANGED <<lt_edges, lt_time, lt_dlight>>
    /\ UNCHANGED notLight

\* cars.py:87-104: TrafficLights.update(dt), for dt of one tick.
LightsUpdate ==
    /\ lt_pc = "lit"
    /\ lt_time < MaxLightTicks
    /\ lt_time' = lt_time + 1
    /\ LET new_instructions == new_light_instructions(lt_light, lt_time')
       IN  IF new_instructions # <<>>
           THEN lt_light' = set_go(lt_light, new_instructions)
           ELSE lt_light' = lt_light
    /\ UNCHANGED <<lt_pc, lt_edges, lt_dlight>>
    /\ UNCHANGED notLight

\* navigation.py:273-312: light_obstacles for a car at (1, 1) driving east
\* through the junction.
SenseLight ==
    /\ lt_pc = "lit"
    /\ lt_dlight' = light_obstacles(CarAt(<<1, 1>>, <<4, 7>>, <<1, 1>>), <<lt_light>>)
    /\ UNCHANGED <<lt_pc, lt_edges, lt_light, lt_time>>
    /\ UNCHANGED notLight

\* C1: the re-route search always stops after a bounded number of iterations.
\* The loop's next step is decided by <<reroute_node, direction>> alone, so the
\* search stops exactly if it never comes back to a pair it has been at.
C1_SearchTerminates ==
    rt_pc = "search" => <<rt_reroute_node, rt_direction>> \notin rt_seen

\* C2: on reconnecting at r the new route is the original prefix up to the
\* departure node, then the detour, then the original route from r on; it
\* ends at the original destination.
C2_SpliceOnReconnect ==
    rt_pc = "done" =>
        \E k \in (rt_reroute_index + 1)..Len(rt_route) :
            /\ rt_new_route = SubSeq(rt_route, 1, rt_reroute_index) \o rt_detour
                                \o SubSeq(rt_route, k, Len(rt_route))
            /\ rt_new_route[Len(rt_new_route)] = rt_route[Len(rt_route)]
C2_Witness ==
    /\ rt_pc = "done"
    /\ Len(rt_detour) >= 2
    /\ rt_reroute_index >= 2
    /\ Len(rt_new_route) > rt_reroute_index + Len(rt_detour) + 1

\* C3: after a tick every car's sensed fields and position are those computed
\* from the frame as it was when the tick started; no car sees a row already
\* updated in the same tick.
C3_TickReadsSnapshot ==
    tk_time > 0 =>
        \A i \in 1..Len(tk_cars) : tk_cars[i] = update_row(tk_prev, i, tk_lights)

\* The other cars of the car's bin that lie in its look-ahead strip.
QualifyingCars ==
    { k \in 1..Len(ob_others) : SameBin(ob_car, ob_others[k]) /\ in_strip(ob_car, ob_others[k]) }
DistanceTo(o) == magnitude(<<o.x - ob_car.x, o.y - ob_car.y>>)

\* C4: car_obstacles returns the distance to the nearest same-bin car in the
\* look-ahead strip, in whatever order the cars are stored, and no obstacle
\* only when no same-bin car lies in the strip.
C4_NearestCarObstacle ==
    ob_pc = "sensed" =>
        IF QualifyingCars = {}
        THEN ob_dcar.kind # "distance"
        ELSE /\ ob_dcar.kind = "distance"
             /\ \A k \in QualifyingCars : ob_dcar.d <= DistanceTo(ob_others[k])
             /\ \E k \in QualifyingCars : ob_dcar.d = DistanceTo(ob_others[k])

\* The lights of the car's bin in its strip with a red face along its vector.
RedLightsAhead ==
    { k \in 1..Len(ob_lights) :
        /\ SameBin(ob_car, ob_lights[k])
        /\ in_strip(ob_car, ob_lights[k])
        /\ red_parallel_face(ob_car, ob_lights[k]) }

\* C5: light_obstacles returns an obstacle distance whenever some light in the
\* strip has a red face parallel to the car's vector, and none when no light
\* has one, whichever other lights share the bin and in whatever order.
C5_RedLightIsObstacle ==
    ob_pc \in {"cars", "sensed"} =>
        (ob_dlight.kind = "distance") = (RedLightsAhead # {})

\* C6: a car whose route is exhausted is classified arrived, and a tick leaves
\* its position unchanged and its velocity zero.
C6_ArrivedIsTerminal ==
    tk_time > 0 =>
        \A i \in 1..Len(tk_cars) :
            tk_prev[i].route[1] = tk_prev[i].destination =>
                /\ determine_state(tk_prev[i].route, tk_prev[i].destination, <<>>, <<>>)
                       = FlagList(<<0, 0, 0, 0, 0, 1>>)
                /\ tk_cars[i].x = tk_prev[i].x
                /\ tk_cars[i].y = tk_prev[i].y
                /\ tk_cars[i].vx = 0
                /\ tk_cars[i].vy = 0

\* C7: determine_state returns, for every combination of route, lights and
\* congested bins, a list of six flags of which exactly one is set.
C7_StateIsOneHot ==
    st_pc = "classified" =>
        /\ st_state.kind = "list"
        /\ Len(st_state.flags) = 6
        /\ Cardinality({ k \in 1..6 : st_state.flags[k] = 1 }) = 1
        /\ \A k \in 1..6 : st_state.flags[k] \in {0, 1}

\* C8: for every d >= free_distance both factors are exactly 1.0.
C8_FarFactorsAreOne ==
    (sp_pc = "done" /\ sp_d >= free_distance) => (IsOne(sp_curv) /\ IsOne(sp_obst))

\* C9: for every d < stop_distance car_obstacle_factor(d) is exactly 0.0.
C9_NearFactorIsZero ==
    (sp_pc = "done" /\ sp_d < stop_distance) => (sp_obst = Const(0))
C9_Witness == sp_pc = "done" /\ sp_d < stop_distance /\ sp_d > 0 /\ sp_obst = Const(0)
\* The distance a car covers in one tick, and the width of the window in
\* which np.isclose holds around a waypoint at the car's coordinate.
StepOf(car) == car.vx \div dt_inverse
WindowOf(car) == 2 * ((1 + 100 * Abs(car.x)) \div 100000000)
\* The car has left waypoint w of its path behind.
Passed(car, w) ==
    /\ car.x > TickXY[w + 1][1]
    /\ ~IsClose(TickXY[w + 1][1], car.x)
FiredOncePerCrossing(i) ==
    \A w \in 1..Len(tk_fired[i]) :
        /\ tk_fired[i][w] <= 1
        /\ Passed(tk_cars[i], w) => tk_fired[i][w] = 1

LightsOnRoute == { a \in 1..Len(st_lights) : st_lights[a].node \in Range(st_route) }
\* The id of the light determine_state re-routes around.
ChosenLight == CHOOSE a \in 1..Len(st_lights) : st_lights[a].node = st_light_node
\* The chosen light has the longest switch-time of the lights on the route.
ChosenHasLongestSwitchTime ==
    (st_pc = "classified" /\ st_light_node # 0) =>
        \A a \in LightsOnRoute : st_lights[a].switch <= st_lights[ChosenLight].switch

\* C11: the light chosen for re-routing is one on the remaining route with
\* the longest switch-time, and of the lights on the route with that
\* switch-time it is the one the route meets first.
C11_LongestSwitchFirstOnRoute ==
    (st_pc = "classified" /\ st_light_node # 0) =>
        /\ ChosenLight \in LightsOnRoute
        /\ \A a \in LightsOnRoute :
              \/ st_lights[a].switch < st_lights[ChosenLight].switch
              \/ /\ st_lights[a].switch = st_lights[ChosenLight].switch
                 /\ IndexOf(st_route, st_light_node) <= IndexOf(st_route, st_lights[a].node)

\* C12: the node the re-route departs from is the node of the route just
\* before the chosen light's node, wherever on the route the light stands,
\* the first node included; it is never a node of the route after the light.
C12_DepartsJustBeforeLight ==
    (st_pc = "classified" /\ st_light_node # 0) =>
        LET at == IndexOf(st_route, st_light_node)
        IN  /\ at > 1 => st_reroute_node = st_route[at - 1]
            /\ ~ \E k \in (at + 1)..Len(st_route) : st_reroute_node = st_route[k]

\* The node an iteration of the search appended to new_route.
AppendedNode == rt_new_route'[Len(rt_new_route) + 1]
\* The neighbours of the current node other than the node just arrived from.
SearchCandidates == Range(rt_adj[rt_direction]) \ {rt_reroute_node}
\* The summed distance of a node to the next three waypoints of the route.
WaypointSum(n) ==
    sum_distances(n, next_nodes_pos(rt_route, rt_reroute_index, rt_pos), rt_pos)

\* C13: in every iteration of the search the node chosen is a neighbour of
\* the current node, is not the node just arrived from, and has the least
\* summed distance to the next three waypoints of the original route among
\* such neighbours, a dead end among them or not.
C13_GreedyChoiceIsMinimal ==
    [][ (rt_pc = "search" /\ rt_pc' # "error") =>
            /\ AppendedNode \in SearchCandidates
            /\ \A n \in SearchCandidates : WaypointSum(AppendedNode) <= WaypointSum(n) ]_vars

C15_FactorsInUnitInterval ==
    (sp_pc = "done" /\ sp_d > 0) =>
        /\ InUnitInterval(sp_curv)
        /\ InUnitInterval(sp_obst)
        /\ sp_theta = 0 => IsOne(sp_curv)

(***************************************************************************)
(* The specifications.                                                     *)
(***************************************************************************)
SpeedSpecInit == SpeedInit /\ RouteIdle /\ StateIdle /\ ObstIdle /\ TickIdle /\ LightIdle
SpeedNext == update_speed_factor
SpecSpeed == SpeedSpecInit /\ [][SpeedNext]_vars

RouteSpecInit == RouteInit /\ SpeedIdle /\ StateIdle /\ ObstIdle /\ TickIdle /\ LightIdle
RouteNext == SearchStep
SpecRoute == RouteSpecInit /\ [][RouteNext]_vars

StateSpecInit == StateInit /\ SpeedIdle /\ RouteIdle /\ ObstIdle /\ TickIdle /\ LightIdle
StateNext == DetermineState
SpecState == StateSpecInit /\ [][StateNext]_vars

ObstSpecInit == ObstInit /\ SpeedIdle /\ RouteIdle /\ StateIdle /\ TickIdle /\ LightIdle
ObstNext == find_light_obstacles \/ find_car_obstacles
SpecObst == ObstSpecInit /\ [][ObstNext]_vars

TickSpecInit == TickInit /\ SpeedIdle /\ RouteIdle /\ StateIdle /\ ObstIdle /\ LightIdle
TickNext == CarsUpdate
SpecTick == TickSpecInit /\ [][TickNext]_vars

LightSpecInit == LightInit /\ SpeedIdle /\ RouteIdle /\ StateIdle /\ ObstIdle /\ TickIdle
LightNext == BuildLight \/ LightsUpdate \/ SenseLight
SpecLight == LightSpecInit /\ [][LightNext]_vars

====
